---- MODULE Spec2Model ----
(***************************************************************************)
(* FilmIndustryDataScraper (scraper.py): the aggregation-with-fallback     *)
(* pipeline scrape_film_jobs, its three source adapters, the synthetic job *)
(* generator and the synthetic profile generator.                          *)
(*                                                                         *)
(* Text is modelled by TLA+ strings, so emptiness, length and slicing are  *)
(* the real ones.  A markup element that a lookup does not find is None    *)
(* (the empty tuple); one that is found is the one-element tuple holding   *)
(* its raw text.  The module `random` is a pseudo-random generator: its    *)
(* state is the variable rng, every draw reads the state and advances it.  *)
(***************************************************************************)
EXTENDS Integers, Sequences, FiniteSets, TLC

VARIABLES
    pc,             \* position of the running call
    jobs,           \* scrape_film_jobs: the local list `jobs`
    page,           \* per adapter: what its source answered (Unfetched before the call)
    ret,            \* per adapter: the list the adapter call returned
    trace,          \* the routines invoked so far, in order
    driver,         \* the browser session of scrape_film_jobs_com
    rng,            \* state of the pseudo-random generator
    professionals   \* scrape_film_professionals: the local list `professionals`

vars == <<pc, jobs, page, ret, trace, driver, rng, professionals>>

-----------------------------------------------------------------------------
(* Bounds of the model *)

\* longest page (number of candidate elements) whose elements are enumerated freely
MaxElements == 2
\* longest page enumerated freely in a whole aggregation pass
MaxPassElements == 2
\* how many candidates beyond an adapter's cap a long page holds
MaxOver == 1
\* number of states of the pseudo-random generator
RngModulus == 64

(* Program constants *)

MaxDescription == 500
CapProductionHub == 20
CapFilmJobsCom == 15
CapMandy == 10
NumProfessionals == 100
MinSkills == 3
MaxSkills == 8

-----------------------------------------------------------------------------
(* Generic helpers *)

Min(a, b) == IF a < b THEN a ELSE b

Range(s) == {s[k] : k \in 1..Len(s)}

RECURSIVE SeqsUpTo(_, _)
\* all sequences over S of length at most n
SeqsUpTo(S, n) ==
    IF n = 0 THEN {<< >>}
    ELSE LET shorter == SeqsUpTo(S, n - 1)
         IN  shorter \cup {Append(s, e) : s \in {t \in shorter : Len(t) = n - 1}, e \in S}

RECURSIVE Rep(_, _)
\* the string s repeated n times
Rep(s, n) ==
    IF n = 0 THEN ""
    ELSE IF n % 2 = 0 THEN LET half == Rep(s, n \div 2) IN half \o half
    ELSE s \o Rep(s, n - 1)

\* Python s[:n]
Slice(s, n) == SubSeq(s, 1, Min(n, Len(s)))

RECURSIVE LStrip(_)
LStrip(s) ==
    IF Len(s) > 0 /\ SubSeq(s, 1, 1) = " " THEN LStrip(SubSeq(s, 2, Len(s))) ELSE s

RECURSIVE RStrip(_)
RStrip(s) ==
    IF Len(s) > 0 /\ SubSeq(s, Len(s), Len(s)) = " "
    THEN RStrip(SubSeq(s, 1, Len(s) - 1)) ELSE s

\* Tag.get_text(strip=True) of an element holding one text node
get_text(s) == RStrip(LStrip(s))

None == << >>
Some(s) == <<s>>
\* truth value of `x` in `if x`, x being None or a bs4 Tag: a Tag is always true
Truthy(x) == x # None
Text(x) == x[1]

-----------------------------------------------------------------------------
(* Reference vocabularies, __init__ *)

film_locations ==
    << <<"Los Angeles", "New York", "Atlanta", "Chicago", "Austin", "San Francisco">>,
       <<"Mumbai", "Chennai", "Hyderabad", "Kolkata", "Pune", "Bangalore">>,
       <<"London", "Manchester", "Glasgow", "Cardiff">>,
       <<"Paris", "Cannes", "Lyon">>,
       <<"Berlin", "Munich", "Hamburg">>,
       <<"Rome", "Milan", "Venice">>,
       <<"Madrid", "Barcelona", "Valencia">>,
       <<"Toronto", "Vancouver", "Montreal">> >>

film_categories ==
    <<"Director", "Producer", "Cinematographer", "Editor", "Sound Designer",
      "Production Designer", "Costume Designer", "Makeup Artist", "Visual Effects",
      "Screenwriter", "Casting Director", "Location Manager", "Script Supervisor",
      "Gaffer", "Grip", "Boom Operator", "Assistant Director", "Stunt Coordinator">>

film_skills ==
    <<"Final Cut Pro", "Avid Media Composer", "Adobe Premiere Pro", "After Effects",
      "Cinema 4D", "Maya", "Blender", "Pro Tools", "Logic Pro", "RED Camera",
      "ARRI Alexa", "Steadicam", "Drone Operation", "Color Grading", "Foley",
      "Motion Graphics", "Storyboarding", "Script Analysis", "Budgeting">>

RECURSIVE Flatten(_)
\* [city for cities in self.film_locations.values() for city in cities]
Flatten(ss) == IF ss = << >> THEN << >> ELSE Head(ss) \o Flatten(Tail(ss))

Cities == Flatten(film_locations)

-----------------------------------------------------------------------------
(* The module random *)

RngStates == 0..(RngModulus - 1)
Unseeded == "unseeded"

\* the generator's step
NextRng(s) == (5 * s + 3) % RngModulus

RECURSIVE Advance(_, _)
\* the generator's state after n draws
Advance(s, n) == IF n = 0 THEN s ELSE Advance(NextRng(s), n - 1)

\* random.choice(xs), drawn in state s
choice(xs, s) == xs[(s % Len(xs)) + 1]

\* random.randint(a, b), drawn in state s
randint(a, b, s) == a + (s % (b - a + 1))

\* random.sample(population, k) of CPython, drawn from state s: pool is the copy of
\* the population and n the number of its entries not yet taken; each draw takes
\* pool[j] and moves the last untaken entry into its place
RECURSIVE sample_pool(_, _, _, _)
sample_pool(pool, n, k, s) ==
    IF k = 0 THEN << >>
    ELSE LET j == (s % n) + 1
         IN  <<pool[j]>> \o sample_pool([pool EXCEPT ![j] = pool[n]], n - 1, k - 1, NextRng(s))

\* a wrong sample: k independent draws, with replacement
sample_with_replacement(population, k, s) ==
    [i \in 1..k |-> choice(population, Advance(s, i - 1))]

sample(population, k, s) == sample_pool(population, Len(population), k, s)

-----------------------------------------------------------------------------
(* generate_fallback_jobs *)

job_titles ==
    <<"Senior Video Editor - Netflix Original Series",
      "Director of Photography - Independent Film",
      "VFX Supervisor - Marvel Studios",
      "Sound Designer - A24 Horror Film",
      "Production Designer - HBO Max Series",
      "Cinematographer - Documentary Film",
      "Assistant Director - Warner Bros Feature",
      "Makeup Department Head - Disney+ Fantasy",
      "Gaffer - Apple TV+ Drama Series",
      "Script Supervisor - Amazon Prime Thriller",
      "Casting Director - Indie Romance Film",
      "Location Manager - Netflix Action Series",
      "Stunt Coordinator - Fast & Furious Franchise",
      "Costume Designer - Period Drama Film",
      "Boom Operator - Sitcom Production">>

job_descriptions ==
    <<"Seeking experienced editor for high-profile streaming series. Must have extensive experience with Avid Media Composer and collaborative post-production workflows.",
      "Looking for skilled cinematographer to shoot independent feature film. RED camera experience and natural lighting expertise required.",
      "VFX Supervisor needed for major superhero film. Strong background in Maya, Nuke, and team management essential.",
      "Sound designer for atmospheric horror film. Experience with Pro Tools, Foley recording, and sound library management preferred.",
      "Production designer for fantasy series set in medieval times. Strong attention to historical detail and large-scale set design required.",
      "Cinematographer for environmental documentary. Drone operation license and wildlife filming experience preferred.",
      "Assistant director for big-budget action film. Strong organizational skills and high-pressure set experience required.",
      "Makeup department head for fantasy series. Prosthetics, special effects makeup, and team leadership experience needed.",
      "Gaffer for critically acclaimed drama series. LED lighting expertise and color temperature mastery required.",
      "Script supervisor for psychological thriller. Continuity experience and meticulous attention to detail essential.",
      "Casting director for romantic comedy film. Strong industry connections and talent evaluation skills required.",
      "Location manager for action series. Scouting experience and permit negotiation skills essential.",
      "Stunt coordinator for major action franchise. Safety certification and wire work experience required.",
      "Costume designer for 1940s period drama. Historical research skills and fabric knowledge essential.",
      "Boom operator for multi-camera sitcom. Live audience experience and microphone technique expertise required.">>

\* a wrong pairing: the title after the one at position i
fallback_job_shifted(i, s) ==
    [title       |-> job_titles[((i + 1) % Len(job_titles)) + 1],
     description |-> job_descriptions[(i % Len(job_descriptions)) + 1],
     location    |-> choice(Cities, s),
     source      |-> "Generated"]

\* the record appended for the title at 0-based position i, the generator being in state s
fallback_job(i, s) ==
    [title       |-> job_titles[i + 1],
     description |-> job_descriptions[(i % Len(job_descriptions)) + 1],
     location    |-> choice(Cities, s),
     source      |-> "Generated"]

\* the list generate_fallback_jobs returns when the generator starts in state s
generate_fallback_jobs(s) ==
    [k \in 1..Len(job_titles) |-> fallback_job(k - 1, Advance(s, k - 1))]

-----------------------------------------------------------------------------
(* scrape_film_professionals *)

first_names ==
    <<"Christopher", "Jennifer", "Michael", "Sarah", "David", "Emma", "Robert", "Lisa",
      "James", "Amanda", "Daniel", "Rachel", "Matthew", "Jessica", "Andrew", "Emily",
      "Ryan", "Ashley", "Kevin", "Michelle", "Brian", "Nicole", "John", "Stephanie">>

last_names ==
    <<"Anderson", "Johnson", "Williams", "Brown", "Jones", "Garcia", "Miller", "Davis",
      "Rodriguez", "Martinez", "Hernandez", "Lopez", "Gonzalez", "Wilson", "Anderson",
      "Thomas", "Taylor", "Moore", "Jackson", "Martin", "Lee", "Perez", "Thompson">>

film_bios ==
    <<"Award-winning filmmaker with over 15 years of experience in documentary and narrative film production.",
      "Experienced cinematographer specializing in natural light photography and handheld camera work.",
      "Post-production specialist with expertise in color grading, sound design, and visual effects.",
      "Creative producer with a proven track record of successful independent film projects.",
      "Visual effects artist with experience in both practical effects and digital compositing.",
      "Screenwriter focused on character-driven narratives and contemporary social issues.",
      "Production designer with extensive experience in period films and television series.",
      "Sound engineer specializing in location recording and post-production audio mixing.">>

experiences ==
    <<"Lead Editor - \"Midnight Stories\" (2023)",
      "Director of Photography - \"Urban Legends\" (2022)",
      "VFX Supervisor - \"Digital Dreams\" (2023)",
      "Sound Designer - \"Whispers in the Dark\" (2022)",
      "Production Designer - \"The Last Dance\" (2023)",
      "Assistant Director - \"City Lights\" TV Series (2021-2023)",
      "Makeup Artist - \"Fantasy Realm\" (2022)",
      "Gaffer - \"Commercial Campaign\" (2023)",
      "Script Supervisor - \"Detective Stories\" (2022)",
      "Casting Director - \"Love in the City\" (2023)">>

generate_film_experience(s) == choice(experiences, s)

\* the skills entry: the size is drawn first (it is an argument of the call), the
\* sample from the next state on
professional_skills(s) ==
    sample(film_skills, randint(MinSkills, MaxSkills, s), NextRng(s))

\* the dict built by one iteration of the loop, the generator being in state s; the
\* entries are evaluated in the order written
professional(s) ==
    LET nskills == Len(professional_skills(Advance(s, 4)))
    IN  [firstName  |-> choice(first_names, s),
         lastName   |-> choice(last_names, Advance(s, 1)),
         role       |-> choice(film_categories, Advance(s, 2)),
         bio        |-> choice(film_bios, Advance(s, 3)),
         skills     |-> professional_skills(Advance(s, 4)),
         experience |-> generate_film_experience(Advance(s, 5 + nskills)),
         location   |-> choice(Cities, Advance(s, 6 + nskills))]

\* the generator's state after one iteration that started in state s
professional_rng(s) == Advance(s, 7 + Len(professional_skills(Advance(s, 4))))

-----------------------------------------------------------------------------
(* What a source can answer *)

LongText == Rep("a", MaxDescription) \o Rep("b", MaxOver)

MaybeTitle == {None, Some(""), Some(" Gaffer ")}
MaybeDescription == {None, Some("  "), Some("Night shoot"), Some(LongText)}
MaybeLocation == {None, Some("Pune ")}

\* a candidate element whose processing raises (a stale or malformed element)
Raising == [title |-> None, description |-> None, location |-> None, raises |-> TRUE]

\* the candidate elements of a page: for each of the three lookups the element found
\* (with its raw text) or None, or an element whose processing raises
Elements ==
    [title : MaybeTitle, description : MaybeDescription, location : MaybeLocation,
     raises : {FALSE}] \cup {Raising}

Full == [title |-> Some(" Gaffer "), description |-> Some("Night shoot"),
         location |-> Some("Pune "), raises |-> FALSE]
EmptyTitle == [Full EXCEPT !.title = Some("")]
NoLocation == [Full EXCEPT !.location = None]

\* the candidate elements of the pages of a whole aggregation pass
PassElements == {Full, EmptyTitle, NoLocation}

\* a complete candidate that its title tells from the others of its page
Numbered(i) == [Full EXCEPT !.title = Some(Rep("t", i))]

\* a page of n complete candidates, the one at position f (if any) being one that raises
LongPage(n, f) == [i \in 1..n |-> IF i = f THEN Raising ELSE Numbered(i)]

LongPages(cap) == {LongPage(n, f) : n \in (cap + 1)..(cap + MaxOver), f \in 0..cap}

\* requests.get + BeautifulSoup: the request fails, or the page holds these elements
SoupResponses(pages) ==
    {[error |-> TRUE, elements |-> << >>]} \cup {[error |-> FALSE, elements |-> p] : p \in pages}

\* the browser: session start, page load or element lookup fails, or the page holds
\* these elements and driver.quit() then succeeds or fails
DriverResponses(pages) ==
    {[fail |-> f, elements |-> << >>] : f \in {"start", "get", "find"}}
        \cup {[fail |-> f, elements |-> p] : f \in {"none", "quit"}, p \in pages}

-----------------------------------------------------------------------------
(* The adapters.  The outcome of a block of code is the list `jobs` it leaves and  *)
(* whether an exception leaves it (exc).                                            *)

\* a wrong handler: the loop is left at the first candidate that raises
on_candidate_error_abort(rest) == << >>

\* `except Exception as e: print(...); continue` of the candidate loops: the candidates
\* still to be processed after one raised
on_candidate_error(rest) == rest

\* no outer handler: the exception leaves the adapter
adapter_uncaught(out) == out

\* the outer `except Exception as e: print(...)` of an adapter, then `return jobs`
adapter_except(out) == [out EXCEPT !.exc = FALSE]

\* the dict appended by scrape_production_hub and scrape_mandy_network
soup_record(e, source) ==
    [title       |-> get_text(Text(e.title)),
     description |-> Slice(get_text(Text(e.description)), MaxDescription),
     location    |-> IF Truthy(e.location) THEN get_text(Text(e.location)) ELSE "Remote",
     source      |-> source]

RECURSIVE soup_loop(_, _, _)
\* `for job_element in soup.find_all(...)[:cap]` with its try/except
soup_loop(elems, source, acc) ==
    IF elems = << >> THEN acc
    ELSE LET e == Head(elems)
         IN  IF e.raises THEN soup_loop(on_candidate_error(Tail(elems)), source, acc)
             ELSE IF Truthy(e.title) /\ Truthy(e.description)
                  THEN soup_loop(Tail(elems), source, Append(acc, soup_record(e, source)))
                  ELSE soup_loop(Tail(elems), source, acc)

\* the try block of a requests/BeautifulSoup adapter
soup_try(resp, cap, source) ==
    IF resp.error THEN [jobs |-> << >>, exc |-> TRUE]
    ELSE [jobs |-> soup_loop(Slice(resp.elements, cap), source, << >>), exc |-> FALSE]

scrape_production_hub(resp) ==
    adapter_except(soup_try(resp, CapProductionHub, "ProductionHUB"))

scrape_mandy_network(resp) ==
    adapter_except(soup_try(resp, CapMandy, "Mandy Network"))

\* the dict appended by scrape_film_jobs_com (.text is the rendered text)
driver_record(e) ==
    [title       |-> Text(e.title),
     description |-> Slice(Text(e.description), MaxDescription),
     location    |-> Text(e.location),
     source      |-> "FilmJobs.com"]

\* find_element raises NoSuchElementException when the element is not there
driver_candidate_raises(e) ==
    e.raises \/ e.title = None \/ e.description = None \/ e.location = None

RECURSIVE driver_loop(_, _)
\* `for job_element in job_elements[:15]` with its try/except
driver_loop(elems, acc) ==
    IF elems = << >> THEN acc
    ELSE LET e == Head(elems)
         IN  IF driver_candidate_raises(e)
             THEN driver_loop(on_candidate_error(Tail(elems)), acc)
             ELSE driver_loop(Tail(elems), Append(acc, driver_record(e)))

\* the try block of scrape_film_jobs_com, with the session it leaves behind:
\* "none" never created, "open" created and not quit, "quit" released,
\* "quit_failed" driver.quit() was called and raised
driver_try(resp) ==
    LET found == driver_loop(Slice(resp.elements, CapFilmJobsCom), << >>)
    IN  CASE resp.fail = "start" -> [jobs |-> << >>, exc |-> TRUE, driver |-> "none"]
          [] resp.fail = "get"   -> [jobs |-> << >>, exc |-> TRUE, driver |-> "open"]
          [] resp.fail = "find"  -> [jobs |-> << >>, exc |-> TRUE, driver |-> "open"]
          [] resp.fail = "quit"  -> [jobs |-> found, exc |-> TRUE, driver |-> "quit_failed"]
          [] resp.fail = "none"  -> [jobs |-> found, exc |-> FALSE, driver |-> "quit"]

scrape_film_jobs_com(resp) == adapter_except(driver_try(resp))

-----------------------------------------------------------------------------
(* scrape_film_jobs *)

Adapters == {"ProductionHUB", "FilmJobs.com", "Mandy Network"}

\* the value of page for an adapter that was not called yet
Unfetched == [unfetched |-> TRUE]

\* a wrong extend: the new records are put in front
extend_front(acc, more) == more \o acc

\* jobs.extend(more)
extend(acc, more) == acc \o more

\* a wrong test: synthetic data whenever the live data is shorter than the title list
needs_fallback_short(js) == Len(js) < Len(job_titles)

\* `if not jobs`
needs_fallback(js) == js = << >>

\* a wrong sequence: the second adapter is skipped
next_call_skip(p) ==
    CASE p = "production_hub" -> "mandy_network"
      [] p = "film_jobs_com"  -> "mandy_network"
      [] p = "mandy_network"  -> "fallback"

\* the statement that follows the call at position p
next_call(p) ==
    CASE p = "production_hub" -> "film_jobs_com"
      [] p = "film_jobs_com"  -> "mandy_network"
      [] p = "mandy_network"  -> "fallback"

\* an adapter call made of scrape_film_jobs returns `out` for the answer `resp`: the
\* list is appended to jobs, or the exception that left the adapter leaves the caller
AdapterCalled(a, resp, out) ==
    /\ page' = [page EXCEPT ![a] = resp]
    /\ trace' = Append(trace, a)
    /\ IF out.exc
       THEN pc' = "raised" /\ UNCHANGED <<jobs, ret>>
       ELSE /\ ret' = [ret EXCEPT ![a] = out.jobs]
            /\ jobs' = extend(jobs, out.jobs)
            /\ pc' = next_call(pc)
    /\ UNCHANGED <<rng, professionals>>

PassPages == SeqsUpTo(PassElements, MaxPassElements)

\* jobs.extend(self.scrape_production_hub())
CallProductionHub ==
    /\ pc = "production_hub"
    /\ \E resp \in SoupResponses(PassPages) :
           AdapterCalled("ProductionHUB", resp, scrape_production_hub(resp))
    /\ UNCHANGED driver

\* jobs.extend(self.scrape_film_jobs_com())
CallFilmJobsCom ==
    /\ pc = "film_jobs_com"
    /\ \E resp \in DriverResponses(PassPages) :
           /\ AdapterCalled("FilmJobs.com", resp, scrape_film_jobs_com(resp))
           /\ driver' = scrape_film_jobs_com(resp).driver

\* jobs.extend(self.scrape_mandy_network())
CallMandyNetwork ==
    /\ pc = "mandy_network"
    /\ \E resp \in SoupResponses(PassPages) :
           AdapterCalled("Mandy Network", resp, scrape_mandy_network(resp))
    /\ UNCHANGED driver

\* `if not jobs: jobs = self.generate_fallback_jobs()`, then `return jobs`; the
\* generator is in some state when it is first drawn from
Fallback ==
    /\ pc = "fallback"
    /\ needs_fallback(jobs)
    /\ \E s \in RngStates :
           /\ jobs' = generate_fallback_jobs(s)
           /\ rng' = Advance(s, Len(job_titles))
    /\ trace' = Append(trace, "Generated")
    /\ pc' = "done"
    /\ UNCHANGED <<page, ret, driver, professionals>>

\* `if not jobs` is false, then `return jobs`
Return ==
    /\ pc = "fallback"
    /\ ~needs_fallback(jobs)
    /\ pc' = "done"
    /\ UNCHANGED <<jobs, page, ret, trace, driver, rng, professionals>>

Init ==
    /\ pc = "production_hub"
    /\ jobs = << >>
    /\ page = [a \in Adapters |-> Unfetched]
    /\ ret = [a \in Adapters |-> << >>]
    /\ trace = << >>
    /\ driver = "none"
    /\ rng = Unseeded
    /\ professionals = << >>

Next == CallProductionHub \/ CallFilmJobsCom \/ CallMandyNetwork \/ Fallback \/ Return

Spec == Init /\ [][Next]_vars

-----------------------------------------------------------------------------
(* One adapter call on its own, on any page *)

\* the adapter called on its own returns `out` for the answer `resp`
AdapterReturned(a, resp, out) ==
    /\ page' = [page EXCEPT ![a] = resp]
    /\ trace' = Append(trace, a)
    /\ ret' = [ret EXCEPT ![a] = out.jobs]
    /\ pc' = IF out.exc THEN "raised" ELSE "returned"
    /\ UNCHANGED <<jobs, rng, professionals>>

AdapterPages(cap) == SeqsUpTo(Elements, MaxElements) \cup LongPages(cap)

UnitProductionHub ==
    /\ pc = "adapter"
    /\ \E resp \in SoupResponses(AdapterPages(CapProductionHub)) :
           AdapterReturned("ProductionHUB", resp, scrape_production_hub(resp))
    /\ UNCHANGED driver

UnitFilmJobsCom ==
    /\ pc = "adapter"
    /\ \E resp \in DriverResponses(AdapterPages(CapFilmJobsCom)) :
           /\ AdapterReturned("FilmJobs.com", resp, scrape_film_jobs_com(resp))
           /\ driver' = scrape_film_jobs_com(resp).driver

UnitMandyNetwork ==
    /\ pc = "adapter"
    /\ \E resp \in SoupResponses(AdapterPages(CapMandy)) :
           AdapterReturned("Mandy Network", resp, scrape_mandy_network(resp))
    /\ UNCHANGED driver

InitAdapter ==
    /\ pc = "adapter"
    /\ jobs = << >>
    /\ page = [a \in Adapters |-> Unfetched]
    /\ ret = [a \in Adapters |-> << >>]
    /\ trace = << >>
    /\ driver = "none"
    /\ rng = Unseeded
    /\ professionals = << >>

NextAdapter == UnitProductionHub \/ UnitFilmJobsCom \/ UnitMandyNetwork

SpecAdapter == InitAdapter /\ [][NextAdapter]_vars

-----------------------------------------------------------------------------
(* The loop of scrape_film_professionals *)

\* one iteration of `for i in range(100)`
GenerateProfessional ==
    /\ pc = "professionals"
    /\ Len(professionals) < NumProfessionals
    /\ professionals' = Append(professionals, professional(rng))
    /\ rng' = professional_rng(rng)
    /\ UNCHANGED <<pc, jobs, page, ret, trace, driver>>

\* `return professionals`
ReturnProfessionals ==
    /\ pc = "professionals"
    /\ Len(professionals) = NumProfessionals
    /\ pc' = "professionals_done"
    /\ UNCHANGED <<jobs, page, ret, trace, driver, rng, professionals>>

InitProfessionals ==
    /\ pc = "professionals"
    /\ jobs = << >>
    /\ page = [a \in Adapters |-> Unfetched]
    /\ ret = [a \in Adapters |-> << >>]
    /\ trace = << >>
    /\ driver = "none"
    /\ rng \in RngStates
    /\ professionals = << >>

NextProfessionals == GenerateProfessional \/ ReturnProfessionals

SpecProfessionals == InitProfessionals /\ [][NextProfessionals]_vars

-----------------------------------------------------------------------------
(* Vocabulary of the properties *)

Cap(a) ==
    CASE a = "ProductionHUB" -> CapProductionHub
      [] a = "FilmJobs.com"  -> CapFilmJobsCom
      [] a = "Mandy Network" -> CapMandy

Fetched(a) == page[a] # Unfetched

\* the adapter's retrieval step failed entirely
RetrievalFailed(a) ==
    /\ Fetched(a)
    /\ IF a = "FilmJobs.com" THEN page[a].fail \in {"start", "get", "find"} ELSE page[a].error

\* the candidates the adapter's loop goes through
Candidates(a) == IF Fetched(a) THEN Slice(page[a].elements, Cap(a)) ELSE << >>

\* the candidate has a title and a description and its processing does not raise by itself
HasTitleAndDescription(e) == ~e.raises /\ e.title # None /\ e.description # None

\* extracting the candidate succeeds and gives a record
Extracted(a, e) ==
    /\ HasTitleAndDescription(e)
    /\ a = "FilmJobs.com" => e.location # None

RecordOf(a, e) == IF a = "FilmJobs.com" THEN driver_record(e) ELSE soup_record(e, a)

\* the adapter returned the records of the extracted candidates, and only them, in
\* the order of the page
InDiscoveryOrder(a) ==
    LET kept == SelectSeq(Candidates(a), LAMBDA e : Extracted(a, e))
    IN  /\ Len(ret[a]) = Len(kept)
        /\ \A k \in 1..Len(kept) : ret[a][k] = RecordOf(a, kept[k])

LiveResult == ret["ProductionHUB"] \o ret["FilmJobs.com"] \o ret["Mandy Network"]

CallOrder == <<"ProductionHUB", "FilmJobs.com", "Mandy Network", "Generated">>

-----------------------------------------------------------------------------
(* Properties *)

\* C1: every record of the list scrape_film_jobs returns has a non-empty title, a
\* non-empty description of at most 500 characters and a source among the three
\* adapter names and 'Generated', whatever the sources return.
C1_JobRecordInvariant ==
    pc = "done" =>
        \A k \in 1..Len(jobs) :
            /\ jobs[k].title # ""
            /\ jobs[k].description # ""
            /\ Len(jobs[k].description) <= 500
            /\ jobs[k].source \in {"ProductionHUB", "FilmJobs.com", "Mandy Network", "Generated"}

\* C2: when the three adapters all return an empty list, scrape_film_jobs returns the
\* output of generate_fallback_jobs: 15 records, one per curated title in list order,
\* each with source 'Generated'.
C2_AllEmptyGivesFallback ==
    (pc = "done" /\ \A a \in Adapters : ret[a] = << >>) =>
        /\ Len(jobs) = 15
        /\ Len(job_titles) = 15
        /\ \A k \in 1..Len(jobs) :
               /\ jobs[k].title = job_titles[k]
               /\ jobs[k].description = job_descriptions[k]
               /\ jobs[k].location \in Range(Cities)
               /\ jobs[k].source = "Generated"

C2_Witness ==
    /\ pc = "done"
    /\ \A a \in Adapters : ret[a] = << >>
    /\ RetrievalFailed("ProductionHUB")
    /\ Candidates("FilmJobs.com") # << >>
    /\ Len(jobs) = 15

\* C3: when at least one adapter returns a record, the list scrape_film_jobs returns
\* is not empty and holds no record with source 'Generated'.
C3_NoTopUp ==
    (pc = "done" /\ \E a \in Adapters : ret[a] # << >>) =>
        /\ jobs # << >>
        /\ \A k \in 1..Len(jobs) : jobs[k].source # "Generated"

C3_Witness ==
    /\ pc = "done"
    /\ ret["ProductionHUB"] = << >>
    /\ ret["FilmJobs.com"] = << >>
    /\ Len(ret["Mandy Network"]) = 1
    /\ Len(jobs) = 1

\* C4: once the browser session of scrape_film_jobs_com exists, driver.quit() is
\* called on every exit path of the adapter: no call returns with the session open.
C4_SessionReleased ==
    (pc = "returned" /\ Fetched("FilmJobs.com")) => driver # "open"

\* C5: whichever adapters' retrieval fails entirely, no exception leaves an adapter,
\* every other adapter is still called, and scrape_film_jobs goes on to return a list.
C5_AdapterIsolation ==
    /\ pc # "raised"
    /\ pc # "done" => ENABLED Next
    /\ pc = "done" => \A a \in Adapters : Fetched(a)

C5_Witness ==
    /\ pc = "done"
    /\ RetrievalFailed("ProductionHUB")
    /\ RetrievalFailed("FilmJobs.com")
    /\ ~RetrievalFailed("Mandy Network")
    /\ ret["Mandy Network"] # << >>
    /\ jobs = ret["Mandy Network"]

\* C6: scrape_film_professionals returns 100 profiles, each with 3 to 8 pairwise
\* distinct skills of film_skills, a role of film_categories and a location that is a
\* city of some region of film_locations.
C6_ProfessionalsValid ==
    /\ pc = "professionals_done" => Len(professionals) = 100
    /\ \A k \in 1..Len(professionals) :
           LET p == professionals[k]
           IN  /\ Len(p.skills) \in 3..8
               /\ \A m, n \in 1..Len(p.skills) : m # n => p.skills[m] # p.skills[n]
               /\ \A m \in 1..Len(p.skills) : p.skills[m] \in Range(film_skills)
               /\ p.role \in Range(film_categories)
               /\ \E r \in 1..Len(film_locations) : p.location \in Range(film_locations[r])

C6_Witness ==
    /\ pc = "professionals_done"
    /\ \E k \in 1..Len(professionals) : Len(professionals[k].skills) = 3
    /\ \E k \in 1..Len(professionals) : Len(professionals[k].skills) = 8

\* C7: when the live result is not empty, scrape_film_jobs returns the ProductionHUB
\* records, then the FilmJobs.com records, then the Mandy Network records, each block
\* in the order of its page, nothing reordered, dropped or duplicated.
C7_ConcatenationInOrder ==
    (pc = "done" /\ LiveResult # << >>) =>
        /\ jobs = LiveResult
        /\ \A a \in Adapters : InDiscoveryOrder(a)

C7_Witness ==
    /\ pc = "done"
    /\ Len(ret["ProductionHUB"]) = 2
    /\ ret["ProductionHUB"][1] # ret["ProductionHUB"][2]
    /\ ret["FilmJobs.com"] # << >>
    /\ ret["Mandy Network"] # << >>

\* C8: for every adapter, a candidate with a title and a description and no location
\* element is emitted as a record with location 'Remote', never dropped.
C8_MissingLocationIsRemote ==
    pc = "returned" =>
        \A a \in Adapters :
            \A i \in 1..Len(Candidates(a)) :
                LET e == Candidates(a)[i]
                IN  (HasTitleAndDescription(e) /\ e.location = None) =>
                        \E k \in 1..Len(ret[a]) : ret[a][k].location = "Remote"

\* C9: within one adapter call, a candidate whose extraction fails is the only one
\* skipped: the records before it are kept, the candidates after it, up to the cap of
\* 20, 15 or 10, are processed, and the adapter returns every extracted record.
C9_CandidateFailureSkipsOne ==
    /\ pc # "raised"
    /\ pc = "returned" =>
           \A a \in Adapters :
               (Fetched(a) /\ ~RetrievalFailed(a)) =>
                   /\ InDiscoveryOrder(a)
                   /\ Len(ret[a]) <= Cap(a)

C9_Witness ==
    /\ pc = "returned"
    /\ \E a \in Adapters :
           /\ Fetched(a)
           /\ ~RetrievalFailed(a)
           /\ Len(page[a].elements) > Cap(a)
           /\ \E f \in 2..(Cap(a) - 1) : page[a].elements[f].raises
           /\ Len(ret[a]) = Cap(a) - 1

\* C10: in one pass the adapters are called once each, in the order ProductionHUB,
\* FilmJobs.com, Mandy Network, none a second time; generate_fallback_jobs is called at
\* most once, after the third adapter returned and only if the live result is empty.
C10_TryAllThenFallback ==
    /\ Len(trace) <= Len(CallOrder)
    /\ trace = SubSeq(CallOrder, 1, Len(trace))
    /\ pc = "done" => Len(trace) >= 3
    /\ (Len(trace) = 4) => (\A a \in Adapters : Fetched(a) /\ ret[a] = << >>)

C10_Witness ==
    /\ pc = "done"
    /\ trace = CallOrder
    /\ RetrievalFailed("ProductionHUB")
    /\ RetrievalFailed("Mandy Network")

====
